---- MODULE Spec2Model ----
(***************************************************************************)
(* ReservaFlow: the reservation concurrency-control subsystem.             *)
(*   restaurants/services.py   TableReservationLock, availability cache    *)
(*   reservations/models.py    Reservation (save, clean, constraint)       *)
(*   reservations/serializers.py  ReservationStatusUpdateSerializer        *)
(*   reservations/tasks.py     expire_reservation, send_reminder, ...      *)
(*   reservations/views.py     ReservationViewSet.create                   *)
(*   maintenance/tasks.py      cleanup_expired_reservations                *)
(* Time is counted in seconds; a date is a day number, a time an hour.     *)
(***************************************************************************)
EXTENDS Integers, Sequences, FiniteSets, Bags, TLC

VARIABLES
    now,          \* wall clock, seconds (time.time(), timezone.now())
    advances,     \* number of clock advances taken so far
    redis_client, \* services.redis_client: "client" or "None"
    redis,        \* the lock keys of the key-value store: key -> [value, exp]
    cache,        \* django cache, availability entries: slot -> [val, exp]
    rows,         \* table reservations_reservation: sequence of rows, id = index
    queue,        \* celery broker: bag of [kind, rid, eta]
    sent,         \* mails delivered: bag of [kind, rid]
    lock,         \* per process: its TableReservationLock instance
    pc,           \* per process: position in the handler it runs
    inst,         \* per process: the in-memory Reservation instance it works on
    last          \* outcome of the call, request or job that ended last

vars == <<now, advances, redis_client, redis, cache, rows, queue, sent,
          lock, pc, inst, last>>

-----------------------------------------------------------------------------
(* Bounds of the model *)

MaxRows == 2
MaxAdvance == 2
MaxDeliveries == 2
MaxCopies == 2

\* Two concurrent workers (request threads, shells, test threads)
Procs == {1, 2}

-----------------------------------------------------------------------------
(* Program constants *)

SecondsPerDay == 86400
SecondsPerHour == 3600
SecondsPerMinute == 60

RESERVATION_PENDING_TIMEOUT == 15
lock_timeout == 45
ExpireMaxRetries == 3
max_retries == 5
additional_time == 30
hours_before == 24
OpeningHour == 10
ClosingHour == 22
MaxFutureDays == 90
MaxPartySize == 12
TtlAvailable == 600
TtlUnavailable == 120

PENDING == "pending"
CONFIRMED == "confirmed"
COMPLETED == "completed"
CANCELLED == "cancelled"
NO_SHOW == "no_show"
EXPIRED == "expired"

Status == {PENDING, CONFIRMED, COMPLETED, CANCELLED, NO_SHOW, EXPIRED}
ActiveStatus == {PENDING, CONFIRMED}

-----------------------------------------------------------------------------
(* Slots: (table, date, time).  Bookable slots of the model. *)

NoSlot == [table |-> 0, date |-> 0, time |-> 0]
Slot1 == [table |-> 1, date |-> 0, time |-> 19]
Slot2 == [table |-> 1, date |-> 1, time |-> 19]
Slots == {Slot1, Slot2}

\* Tomorrow's slot of another table.
Slot3 == [table |-> 2, date |-> 1, time |-> 19]

\* A request carries its table, date and time as text: the slot it denotes
\* and the form the time is written in.  Two writings of Slot2.
Writings == {[table |-> 1, date |-> 1, time |-> 19, text |-> "19:00"],
             [table |-> 1, date |-> 1, time |-> 19, text |-> "19:00:00"]}

\* Field.to_python: the value a text denotes; a value is left as it is
ToPython(k) == [table |-> k.table, date |-> k.date, time |-> k.time]

\* Every key the stores can hold: the keys are formatted from what the
\* caller passed, values or the text of a request.
Keys == Slots \cup {Slot3} \cup Writings

\* The clock starts on day 0 at 23:50.
StartTime == 23 * SecondsPerHour + 50 * SecondsPerMinute

\* time.time() has sub-second resolution: readings taken within one second of
\* the model clock are told apart by a fraction, and can also coincide.
Fractions == {0, 1}

-----------------------------------------------------------------------------
(* The key-value store (Redis) as TableReservationLock uses it.            *)

NoValue == <<-1, -1>>
NoEntry == [value |-> NoValue, exp |-> 0]
NoLock == [key |-> NoSlot, value |-> NoValue, acquired |-> FALSE, attempt |-> 0,
           timeout |-> 0, retries |-> 0, granted |-> FALSE, until |-> 0,
           slept |-> 0]

\* Mutant: a key that never expires
LiveForever(r, k, t) == r[k].value # NoValue

\* A key exists until its expiry: SET ... EX ttl at time t is gone at t + ttl.
Live(r, k, t) == r[k].value # NoValue /\ t < r[k].exp

\* redis_client.get(key)
RedisGet(r, k, t) == IF Live(r, k, t) THEN r[k].value ELSE NoValue

\* redis_client.set(key, value, ex=ttl, nx=True): truthy iff the key was written
SetNxResult(r, k, t) == ~Live(r, k, t)

SetNx(r, k, v, ttl, t) ==
    IF SetNxResult(r, k, t) THEN [r EXCEPT ![k] = [value |-> v, exp |-> t + ttl]]
    ELSE r

\* release's Lua script: del only if get(KEYS[1]) == ARGV[1]; returns 1 or 0
LuaReleaseResult(r, k, v, t) == IF RedisGet(r, k, t) = v THEN 1 ELSE 0

\* Mutant: a release that deletes without comparing the owner token
LuaReleaseUnchecked(r, k, v, t) == [r EXCEPT ![k] = NoEntry]

LuaRelease(r, k, v, t) ==
    IF RedisGet(r, k, t) = v THEN [r EXCEPT ![k] = NoEntry] ELSE r

\* extend_lock's Lua script: expire only if get(KEYS[1]) == ARGV[1]
LuaExpireResult(r, k, v, t) == IF RedisGet(r, k, t) = v THEN 1 ELSE 0

LuaExpire(r, k, v, ttl, t) ==
    IF RedisGet(r, k, t) = v THEN [r EXCEPT ![k].exp = t + ttl] ELSE r

-----------------------------------------------------------------------------
(* TableReservationLock *)

DefaultTimeout == 30
DefaultRetries == 3

\* acquire(retry_delay=0.1): the delay, in tenths of a second
retry_delay == 1

\* Mutant: a lock key that leaves the slot out
NewLockOneKey(k, f, timeout, retries) ==
    [key |-> Slot2, value |-> <<now, f>>, acquired |-> FALSE, attempt |-> 0,
     timeout |-> timeout, retries |-> retries, granted |-> FALSE, until |-> 0,
     slept |-> 0]

\* __init__: lock_key from the slot, lock_value = f"{time.time()}"
NewLock(k, f, timeout, retries) ==
    [key |-> k, value |-> <<now, f>>, acquired |-> FALSE, attempt |-> 0,
     timeout |-> timeout, retries |-> retries, granted |-> FALSE, until |-> 0,
     slept |-> 0]

\* acquire: "sleep_time = retry_delay * (2**attempt)", slept after a failed
\* pass that is not the last one
SleepTime(l) ==
    IF l.attempt < l.retries - 1 THEN retry_delay * 2 ^ l.attempt ELSE 0

\* Mutant: an acquire that retries for ever
AcquireOutcomeUnbounded(l) ==
    IF redis_client = "None" THEN "true"
    ELSE IF SetNxResult(redis, l.key, now) THEN "true"
    ELSE "retry"

\* Mutant: an acquire that refuses when there is no client
AcquireOutcomeClosed(l) ==
    IF redis_client # "client" THEN "false"
    ELSE IF SetNxResult(redis, l.key, now) THEN "true"
    ELSE IF l.attempt + 1 >= l.retries THEN "false"
    ELSE "retry"

\* One pass of acquire's retry loop by lock instance l: "true" and "false" are
\* acquire's return values, "retry" is the loop going round again.
\* redis_client is "client" (connected), "None" (get_redis_client found no
\* server when the module was loaded) or "down" (a client whose server has
\* gone: set raises RedisError, the reconnect finds no server and the loop
\* is left, or it was the last pass).
AcquireOutcome(l) ==
    IF redis_client = "None" THEN "true"
    ELSE IF redis_client = "down" THEN "false"
    ELSE IF SetNxResult(redis, l.key, now) THEN "true"
    ELSE IF l.attempt + 1 >= l.retries THEN "false"
    ELSE "retry"

\* The lock instance after that pass.  granted/until record for the instance
\* that acquire returned True and when the TTL it asked for runs out; slept
\* is the time the call in progress has slept, in tenths of a second.
AcquireLock(l) ==
    IF redis_client = "None"
        THEN [l EXCEPT !.granted = TRUE, !.until = now + l.timeout]
    ELSE IF redis_client = "down" THEN l
    ELSE IF SetNxResult(redis, l.key, now)
        THEN [l EXCEPT !.acquired = TRUE, !.granted = TRUE,
                       !.until = now + l.timeout]
    ELSE [l EXCEPT !.attempt = l.attempt + 1, !.slept = l.slept + SleepTime(l)]

AcquireRedis(l) ==
    IF redis_client # "client" THEN redis
    ELSE SetNx(redis, l.key, l.value, l.timeout, now)

\* release(): return value
ReleaseResult(l) ==
    IF ~l.acquired THEN TRUE
    ELSE IF redis_client = "None" THEN TRUE
    ELSE IF redis_client = "down" THEN FALSE
    ELSE LuaReleaseResult(redis, l.key, l.value, now) = 1

\* Mutant: a release that leaves the key in the store
ReleaseRedisSkipped(l) == redis

ReleaseRedis(l) ==
    IF ~l.acquired \/ redis_client # "client" THEN redis
    ELSE LuaRelease(redis, l.key, l.value, now)

ReleaseLock(l) == [l EXCEPT !.acquired = FALSE, !.granted = FALSE, !.until = 0]

\* extend_lock(additional): return value
ExtendResult(l) ==
    IF ~l.acquired \/ redis_client # "client" THEN FALSE
    ELSE LuaExpireResult(redis, l.key, l.value, now) = 1

ExtendRedis(l, additional) ==
    IF ~l.acquired \/ redis_client # "client" THEN redis
    ELSE LuaExpire(redis, l.key, l.value, additional, now)


-----------------------------------------------------------------------------
(* Reservation: the model class and its table *)

NoTime == 0
DefaultPartySize == 2
TableCapacity == 4

\* An in-memory instance; old_status is the local of save() of that name
NoInst == [rid |-> 0, slot |-> NoSlot, status |-> "", expires_at |-> NoTime,
           party_size |-> 0, old_status |-> ""]

Today(t) == t \div SecondsPerDay

\* Reservation.reservation_datetime
ReservationDatetime(r) ==
    r.slot.date * SecondsPerDay + r.slot.time * SecondsPerHour

\* Rows another transaction can read: the committed ones
Visible(rs) == {i \in 1..Len(rs) : rs[i].committed}

Active(r) == r.status \in ActiveStatus

\* Reservation._validate_dates
ValidateDates(r, t) ==
    /\ r.slot.date >= Today(t)
    /\ r.slot.date <= Today(t) + MaxFutureDays
    /\ OpeningHour <= r.slot.time /\ r.slot.time <= ClosingHour

\* Reservation._validate_party_size
ValidatePartySize(r) ==
    r.party_size # 0 =>
        /\ r.party_size >= 1
        /\ r.party_size <= MaxPartySize
        /\ r.party_size <= TableCapacity

\* Reservation._validate_no_double_booking: no other active reservation of
\* the slot, whatever the status being saved
ValidateNoDoubleBooking(rs, r) ==
    ~ \E i \in Visible(rs) :
        i # r.rid /\ rs[i].slot = r.slot /\ Active(rs[i])

\* Reservation.clean, run by full_clean() in save()
FullClean(rs, r, t) ==
    /\ ValidateNoDoubleBooking(rs, r)
    /\ ValidateDates(r, t)
    /\ ValidatePartySize(r)

\* Mutant: a table without the partial unique constraint
UniqueActiveUnchecked(rs, r) == TRUE

\* Meta.constraints: unique_active_reservation_per_table_datetime, checked by
\* the database on INSERT and UPDATE against every row, committed or not
UniqueActive(rs, r) ==
    Active(r) =>
        ~ \E i \in 1..Len(rs) :
            i # r.rid /\ rs[i].slot = r.slot /\ Active(rs[i])

\* Reservation.is_expired
IsExpired(r, t) == r.expires_at # NoTime /\ t >= r.expires_at

\* Mutant: a save that never sets expires_at
WithExpiryUnset(r, t) == r

\* save(): "if self.status == PENDING and not self.expires_at"
WithExpiry(r, t) ==
    IF r.status = PENDING /\ r.expires_at = NoTime
    THEN [r EXCEPT !.expires_at =
              t + RESERVATION_PENDING_TIMEOUT * SecondsPerMinute]
    ELSE r

Row(r, committed) ==
    [slot |-> r.slot, status |-> r.status, expires_at |-> r.expires_at,
     party_size |-> r.party_size, committed |-> committed]

InstOf(rs, i) ==
    [rid |-> i, slot |-> rs[i].slot, status |-> rs[i].status,
     expires_at |-> rs[i].expires_at, party_size |-> rs[i].party_size,
     old_status |-> ""]

\* super().save() of an existing instance: UPDATE of its row
UpdateRow(rs, r) ==
    [rs EXCEPT ![r.rid] = Row(r, rs[r.rid].committed)]

\* celery: apply_async / delay
Job(kind, rid, eta) ==
    [kind |-> kind, rid |-> rid, eta |-> eta, retries |-> 0]
\* The model counts up to MaxCopies copies of one message.
Enqueue(q, j) == IF CopiesIn(j, q) < MaxCopies THEN q (+) SetToBag({j}) ELSE q

\* Reservation.schedule_expiration, called after super().save()
ScheduleExpiration(q, r) ==
    IF r.status = PENDING /\ r.expires_at # NoTime
    THEN Enqueue(q, Job("expire_reservation", r.rid, r.expires_at))
    ELSE q

\* save(): the scheduling that follows super().save()
AfterSave(q, r, old_status, t) ==
    LET q1 == IF r.status = PENDING THEN ScheduleExpiration(q, r) ELSE q
    IN  IF old_status = PENDING /\ r.status = CONFIRMED
        THEN Enqueue(q1, Job("schedule_reminder", r.rid, NoTime))
        ELSE q1

\* ReservationStatusUpdateSerializer.validate_status: allowed_transitions
AllowedTransitions(s) ==
    CASE s = PENDING -> {CONFIRMED, CANCELLED, EXPIRED}
      [] s = CONFIRMED -> {COMPLETED, CANCELLED, NO_SHOW}
      [] OTHER -> {}

ValidateStatus(current, value) == value \in AllowedTransitions(current)

-----------------------------------------------------------------------------
(* Initial state: empty store, empty broker, no lock held.  The module-level *)
(* redis_client is a client, or None when Redis did not answer at import.   *)

NoResp == [proc |-> 0, op |-> "", rid |-> 0, result |-> "", status |-> ""]
\* A cache entry: the cached boolean and the time its timeout runs out.
\* read records that a check_table_availability call has started on the
\* key since the entry was last deleted.
NoCache == [val |-> FALSE, exp |-> 0, read |-> FALSE]

Resp(p, op, result) ==
    [proc |-> p, op |-> op, rid |-> 0, result |-> result, status |-> ""]

InitRest ==
    /\ now = StartTime
    /\ advances = 0
    /\ redis = [k \in Keys |-> NoEntry]
    /\ cache = [k \in Keys |-> NoCache]
    /\ rows = <<>>
    /\ queue = EmptyBag
    /\ sent = EmptyBag
    /\ lock = [p \in Procs |-> NoLock]
    /\ pc = [p \in Procs |-> "idle"]
    /\ inst = [p \in Procs |-> NoInst]
    /\ last = NoResp

\* The module was loaded with the server reachable or not
Init == redis_client \in {"client", "None"} /\ InitRest

\* Time passes by d seconds.
Advance(d) ==
    /\ advances < MaxAdvance
    /\ now' = now + d
    /\ advances' = advances + 1
    /\ UNCHANGED <<redis_client, redis, cache, rows, queue, sent, lock, pc,
                   inst, last>>

-----------------------------------------------------------------------------
(* TableReservationLock used directly by a caller (as the lock tests do)    *)

LockNew(p, k, f) ==
    /\ pc[p] = "idle"
    /\ lock' = [lock EXCEPT ![p] = NewLock(k, f, DefaultTimeout, DefaultRetries)]
    /\ pc' = [pc EXCEPT ![p] = "ready"]
    /\ UNCHANGED <<now, advances, redis_client, redis, cache, rows, queue,
                   sent, inst, last>>

\* acquire(): one pass of the retry loop; the call starts with attempt 0.
\* A caller does not call acquire on an instance that already holds the lock.
LockAcquire(p) ==
    /\ pc[p] \in {"ready", "acquiring"}
    /\ pc[p] = "ready" => ~lock[p].granted
    /\ LET out == AcquireOutcome(lock[p])
       IN  /\ redis' = AcquireRedis(lock[p])
           /\ lock' = [lock EXCEPT ![p] =
                          IF out = "retry" THEN AcquireLock(lock[p])
                          ELSE [AcquireLock(lock[p]) EXCEPT !.attempt = 0,
                                                            !.slept = 0]]
           /\ pc' = [pc EXCEPT ![p] =
                        IF out = "retry" THEN "acquiring" ELSE "ready"]
           /\ last' = IF out = "retry" THEN last ELSE Resp(p, "acquire", out)
    /\ UNCHANGED <<now, advances, redis_client, cache, rows, queue, sent,
                   inst>>

LockRelease(p) ==
    /\ pc[p] = "ready"
    /\ redis' = ReleaseRedis(lock[p])
    /\ lock' = [lock EXCEPT ![p] = ReleaseLock(lock[p])]
    /\ last' = Resp(p, "release", IF ReleaseResult(lock[p]) THEN "true"
                                   ELSE "false")
    /\ UNCHANGED <<now, advances, redis_client, cache, rows, queue, sent,
                   pc, inst>>

LockExtend(p) ==
    /\ pc[p] = "ready"
    /\ redis' = ExtendRedis(lock[p], additional_time)
    /\ last' = Resp(p, "extend", IF ExtendResult(lock[p]) THEN "true"
                                  ELSE "false")
    /\ UNCHANGED <<now, advances, redis_client, cache, rows, queue, sent,
                   lock, pc, inst>>

\* The caller dies: its instance is gone and nothing is released.
LockCrash(p) ==
    /\ pc[p] \in {"ready", "acquiring"}
    /\ lock' = [lock EXCEPT ![p] = NoLock]
    /\ pc' = [pc EXCEPT ![p] = "idle"]
    /\ UNCHANGED <<now, advances, redis_client, redis, cache, rows, queue,
                   sent, inst, last>>

\* The callers of the lock specification contend for one key.
LockKeys == {Slot1}

LockSteps == {DefaultTimeout \div 2, DefaultTimeout}

NextLock ==
    \/ \E p \in Procs, k \in LockKeys, f \in Fractions : LockNew(p, k, f)
    \/ \E p \in Procs : LockAcquire(p)
    \/ \E p \in Procs : LockRelease(p)
    \/ \E p \in Procs : LockExtend(p)
    \/ \E p \in Procs : LockCrash(p)
    \/ \E d \in LockSteps : Advance(d)

SpecLock == Init /\ [][NextLock]_vars

\* Lock instance p holds key k: acquire returned True, it has not released
\* since, and the TTL of that acquire has not run out.
Holds(p, k) ==
    lock[p].key = k /\ lock[p].granted /\ now < lock[p].until

\* C3: with a Redis client, acquire returns true only through the caller's
\* own conditional create, hence at any moment at most one lock instance has
\* acquired a given key and has neither released it nor outlived its TTL.
C3_AtMostOneHolder ==
    redis_client = "client" =>
        \A k \in Slots : \A p, q \in Procs : Holds(p, k) /\ Holds(q, k) => p = q

\* The token a call of p presents differs from the key's current value
\* (another owner's token, or no value because the key expired or is absent).
PresentsOtherToken(p) ==
    RedisGet(redis, lock[p].key, now) # lock[p].value

\* C4 as stated: a release or extend call on a key that was written, made
\* with a token different from the key's current value (the key is held by
\* another owner, or it expired), returns false and leaves the key unchanged.
C4_ForeignTokenReturnsFalse ==
    [][\A p \in Procs :
          (/\ redis_client = "client"
           /\ LockRelease(p) \/ LockExtend(p)
           /\ redis[lock[p].key].value # NoValue
           /\ PresentsOtherToken(p))
              => last'.result = "false" /\ redis' = redis]_vars

\* C4 as amended: such a call never changes the key; extend returns false;
\* release returns false when the instance has lock_acquired set, and true
\* when it has not (it never acquired, or already released).
C4_ForeignTokenNeverChangesKey ==
    [][\A p \in Procs :
          /\ (LockRelease(p) \/ LockExtend(p)) /\ PresentsOtherToken(p)
                => redis' = redis
          /\ LockExtend(p) /\ PresentsOtherToken(p)
                => last' = Resp(p, "extend", "false")
          /\ LockRelease(p) /\ PresentsOtherToken(p)
                => (last'.result = "false") = lock[p].acquired]_vars

\* C4 witness: an instance that had acquired released after its key had
\* passed to another owner: it got false and the other owner's key is live.
C4_Witness ==
    \E p, q \in Procs :
        /\ p # q
        /\ last = Resp(p, "release", "false")
        /\ lock[q].acquired /\ lock[q].key = lock[p].key
        /\ lock[q].value # lock[p].value
        /\ RedisGet(redis, lock[q].key, now) = lock[q].value

\* The key's entry has outlived its TTL and was written by another instance.
ExpiredForeignKey(p) ==
    /\ redis[lock[p].key].value # NoValue
    /\ redis[lock[p].key].value # lock[p].value
    /\ now >= redis[lock[p].key].exp

\* C5: a lock that is never released stops excluding others once its TTL has
\* elapsed: an acquire by another caller then succeeds at its first try, and
\* no key ever has more than the longest TTL left to live.
C5_ExpiredLockIsFree ==
    /\ [](\A k \in Slots : redis[k].value # NoValue =>
              redis[k].exp <= now + DefaultTimeout)
    /\ [][\A p \in Procs :
            LockAcquire(p) /\ redis_client = "client" /\ ExpiredForeignKey(p)
                => /\ last' = Resp(p, "acquire", "true")
                   /\ redis'[lock[p].key].value = lock[p].value
                   /\ lock'[p].acquired]_vars

\* C5 witness: q acquired and never released, its TTL elapsed, and p then
\* acquired the same key.
C5_Witness ==
    \E p, q \in Procs :
        /\ p # q
        /\ lock[q].granted /\ lock[q].acquired /\ now >= lock[q].until
        /\ lock[p].key = lock[q].key
        /\ lock[p].acquired /\ Holds(p, lock[p].key)
        /\ redis[lock[p].key].value = lock[p].value
        /\ lock[p].value # lock[q].value

-----------------------------------------------------------------------------
(* Writes through the model: Reservation.objects.create, instance.save,    *)
(* ReservationStatusUpdateSerializer                                       *)

StatusResp(p, result) == Resp(p, "status", result)

\* No row of another open transaction holds the slot: the database makes an
\* INSERT or UPDATE that collides with an uncommitted row wait for it.
NotBlocked(rs, r) ==
    Active(r) =>
        ~ \E i \in 1..Len(rs) :
            i # r.rid /\ ~rs[i].committed /\ rs[i].slot = r.slot /\ Active(rs[i])

\* Reservation.save() in autocommit: "ok", or the exception it raises
SaveOutcome(rs, r, t) ==
    IF ~FullClean(rs, r, t) THEN "ValidationError"
    ELSE IF ~UniqueActive(rs, r) THEN "IntegrityError"
    ELSE "ok"

\* Reservation.objects.create(..., status=st, party_size=n) outside the API
\* (autocommit): save() on a new instance
ModelCreateOf(p, k, st, n) ==
    /\ pc[p] = "idle"
    /\ LET r == WithExpiry([NoInst EXCEPT !.rid = Len(rows) + 1, !.slot = k,
                               !.status = st, !.party_size = n], now)
           out == SaveOutcome(rows, r, now)
       IN  /\ NotBlocked(rows, r)
           /\ out = "ok" => Len(rows) < MaxRows
           /\ rows' = IF out = "ok" THEN Append(rows, Row(r, TRUE)) ELSE rows
           /\ queue' = IF out = "ok" THEN AfterSave(queue, r, "", now) ELSE queue
           /\ last' = Resp(p, "create", out)
    /\ UNCHANGED <<now, advances, redis_client, redis, cache, sent, lock, pc,
                   inst>>

\* The same for a party of DefaultPartySize
ModelCreate(p, k, st) == ModelCreateOf(p, k, st, DefaultPartySize)

\* Reservation.objects.get(pk=i): the caller now holds an in-memory instance
Load(p, i) ==
    /\ pc[p] = "idle"
    /\ i \in Visible(rows)
    /\ inst' = [inst EXCEPT ![p] = InstOf(rows, i)]
    /\ pc' = [pc EXCEPT ![p] = "loaded"]
    /\ UNCHANGED <<now, advances, redis_client, redis, cache, rows, queue,
                   sent, lock, last>>

\* instance.status = st; instance.save() on the in-memory instance r0.
\* save() has no check of the transition it writes.
SaveStatus(p, r0, st) ==
    LET old_status == rows[r0.rid].status
        r == WithExpiry([r0 EXCEPT !.status = st], now)
        out == SaveOutcome(rows, r, now)
    IN  /\ NotBlocked(rows, r)
        /\ rows' = IF out = "ok" THEN UpdateRow(rows, r) ELSE rows
        /\ queue' = IF out = "ok" THEN AfterSave(queue, r, old_status, now)
                    ELSE queue
        /\ last' = StatusResp(p, out)

\* Direct model save of a new status on an instance read earlier
ModelSave(p, st) ==
    /\ pc[p] = "loaded"
    /\ SaveStatus(p, inst[p], st)
    /\ inst' = [inst EXCEPT ![p] = NoInst]
    /\ pc' = [pc EXCEPT ![p] = "idle"]
    /\ UNCHANGED <<now, advances, redis_client, redis, cache, sent, lock>>

\* Direct model save of a new status on an instance read just before
ModelUpdate(p, i, st) ==
    /\ pc[p] = "idle"
    /\ i \in Visible(rows)
    /\ SaveStatus(p, InstOf(rows, i), st)
    /\ UNCHANGED <<now, advances, redis_client, redis, cache, sent, lock, pc,
                   inst>>

\* instance.status = st; instance.save(), statement by statement, as it runs
\* next to other writers.  First part: save() reads the stored status into
\* old_status.
SaveBegin(p, st) ==
    /\ pc[p] = "loaded"
    /\ inst' = [inst EXCEPT ![p] = [inst[p] EXCEPT
                    !.status = st, !.old_status = rows[inst[p].rid].status]]
    /\ pc' = [pc EXCEPT ![p] = "saving"]
    /\ UNCHANGED <<now, advances, redis_client, redis, cache, rows, queue,
                   sent, lock, last>>

\* Second part: expires_at, full_clean(), super().save(), then the scheduling
\* decided on the old_status read in the first part
SaveEnd(p) ==
    /\ pc[p] = "saving"
    /\ LET r == WithExpiry(inst[p], now)
           out == SaveOutcome(rows, r, now)
       IN  /\ NotBlocked(rows, r)
           /\ rows' = IF out = "ok" THEN UpdateRow(rows, r) ELSE rows
           /\ queue' = IF out = "ok"
                       THEN AfterSave(queue, r, inst[p].old_status, now)
                       ELSE queue
           /\ last' = StatusResp(p, out)
    /\ inst' = [inst EXCEPT ![p] = NoInst]
    /\ pc' = [pc EXCEPT ![p] = "idle"]
    /\ UNCHANGED <<now, advances, redis_client, redis, cache, sent, lock>>

\* ReservationStatusUpdateSerializer: is_valid() then save()
SerializerUpdate(p, st) ==
    /\ pc[p] = "loaded"
    /\ IF ValidateStatus(inst[p].status, st)
       THEN SaveStatus(p, inst[p], st)
       ELSE /\ last' = StatusResp(p, "InvalidTransition")
            /\ UNCHANGED <<rows, queue>>
    /\ inst' = [inst EXCEPT ![p] = NoInst]
    /\ pc' = [pc EXCEPT ![p] = "idle"]
    /\ UNCHANGED <<now, advances, redis_client, redis, cache, sent, lock>>

-----------------------------------------------------------------------------
(* Scheduled jobs.  A job runs at or after its eta;  the broker delivers at  *)
(* least once, so a message that was enqueued can be run any number of     *)
(* times: the queue keeps every message.                                   *)

Due(j, kind) == BagIn(j, queue) /\ j.kind = kind /\ j.eta <= now

\* The outcome of a job execution: what the task returned or raised
Ran(kind, rid, result) ==
    [proc |-> 0, op |-> kind, rid |-> rid, result |-> result, status |-> ""]

\* expire_reservation: "if reservation.status == 'pending' and
\* reservation.is_expired()"
ShouldExpire(r, t) == r.status = PENDING /\ IsExpired(r, t)

\* Mutant: a task that asks for a retry when the reservation is missing
ExpireOutcomeRetrying(rs, i, t) ==
    IF i \notin Visible(rs) THEN "retry"
    ELSE IF ~ShouldExpire(InstOf(rs, i), t) THEN "unchanged"
    ELSE IF ~FullClean(rs, [InstOf(rs, i) EXCEPT !.status = EXPIRED], t)
         THEN "ValidationError"
    ELSE "expired"

\* expire_reservation(reservation_id): what the task returns or raises
ExpireOutcome(rs, i, t) ==
    IF i \notin Visible(rs) THEN "not_found"
    ELSE IF ~ShouldExpire(InstOf(rs, i), t) THEN "unchanged"
    ELSE IF ~FullClean(rs, [InstOf(rs, i) EXCEPT !.status = EXPIRED], t)
         THEN "ValidationError"
    ELSE "expired"

\* expire_reservation(reservation_id): the table after the task
ExpireRows(rs, i, t) ==
    IF ExpireOutcome(rs, i, t) = "expired"
    THEN [rs EXCEPT ![i].status = EXPIRED]
    ELSE rs

\* Mutant: a task that retries a storage error without a limit
ExpireRetriesUnbounded(j) == TRUE

\* self.retry(exc=exc, countdown=..., max_retries=3): whether the execution
\* of message j may be retried once more
ExpireRetries(j) == j.retries < ExpireMaxRetries

\* "countdown = 2 ** self.request.retries", in seconds
ExpireCountdown(j) == 2 ^ j.retries

\* expire_reservation(reservation_id) as the worker runs message j; db_error
\* tells whether the database raises OperationalError in this execution.
\* Then the transaction rolls back and self.retry sends the message again,
\* in the place of the one that was run, or raises the error when the
\* retries are used up.
ExpireJobDb(j, db_error) ==
    /\ Due(j, "expire_reservation")
    /\ IF db_error
       THEN /\ rows' = rows
            /\ IF ExpireRetries(j)
               THEN /\ queue' = Enqueue(queue (-) SetToBag({j}),
                                   [j EXCEPT !.retries = j.retries + 1,
                                             !.eta = now + ExpireCountdown(j)])
                    /\ last' = Ran("expire_reservation", j.rid, "retry")
               ELSE /\ queue' = queue
                    /\ last' = Ran("expire_reservation", j.rid,
                                   "OperationalError")
       ELSE /\ rows' = ExpireRows(rows, j.rid, now)
            /\ queue' = queue
            /\ last' = Ran("expire_reservation", j.rid,
                           ExpireOutcome(rows, j.rid, now))
    /\ UNCHANGED <<now, advances, redis_client, redis, cache, sent,
                   lock, pc, inst>>

\* The same with the database answering
ExpireJob(j) == ExpireJobDb(j, FALSE)

\* schedule_reminder(reservation_id, hours_before)
ScheduleReminderJob(j) ==
    /\ Due(j, "schedule_reminder")
    /\ LET q == queue
       IN  IF j.rid \notin Visible(rows)
           THEN /\ queue' = q
                /\ last' = Ran("schedule_reminder", j.rid, "not_found")
           ELSE /\ queue' = Enqueue(q, Job("send_reminder", j.rid,
                               ReservationDatetime(rows[j.rid])
                                   - hours_before * SecondsPerHour))
                /\ last' = Ran("schedule_reminder", j.rid, "reminder_scheduled")
    /\ UNCHANGED <<now, advances, redis_client, redis, cache, rows, sent,
                   lock, pc, inst>>

\* Mutant: a reminder that does not look at the status
ReminderOutcomeUnchecked(rs, i, delivered) ==
    IF i \notin Visible(rs) THEN "not_found"
    ELSE IF delivered THEN "reminder_sent"
    ELSE "retry"

\* send_reminder(reservation_id): what the task returns; delivered tells
\* whether send_mail succeeds
ReminderOutcome(rs, i, delivered) ==
    IF i \notin Visible(rs) THEN "not_found"
    ELSE IF rs[i].status # CONFIRMED THEN "not_confirmed"
    ELSE IF delivered THEN "reminder_sent"
    ELSE "retry"

Mail(kind, rid) == [kind |-> kind, rid |-> rid]

\* Mutant: a reminder that cancels the reservation when the mail fails
ReminderRowsOnFailure(rs, i, delivered) ==
    IF i \in Visible(rs) /\ ~delivered
    THEN [rs EXCEPT ![i].status = CANCELLED]
    ELSE rs

\* send_reminder(reservation_id): the table after the task.  The task reads
\* the reservation and writes nothing, whatever send_mail does.
ReminderRows(rs, i, delivered) == rs

ReminderJob(j, delivered) ==
    /\ Due(j, "send_reminder")
    /\ LET out == ReminderOutcome(rows, j.rid, delivered)
       IN  /\ last' = Ran("send_reminder", j.rid, out)
           /\ sent' = IF out = "reminder_sent"
                      THEN sent (+) SetToBag({Mail("reminder", j.rid)})
                      ELSE sent
           /\ CopiesIn(Mail("reminder", j.rid), sent') <= MaxDeliveries
    /\ rows' = ReminderRows(rows, j.rid, delivered)
    /\ UNCHANGED <<now, advances, redis_client, redis, cache, queue,
                   lock, pc, inst>>

\* send_confirmation_email(reservation_id): what the task returns; delivered
\* tells whether send_mail succeeds
ConfirmationOutcome(rs, i, delivered) ==
    IF i \notin Visible(rs) THEN "not_found"
    ELSE IF delivered THEN "email_sent"
    ELSE "retry"

ConfirmationJob(j, delivered) ==
    /\ Due(j, "send_confirmation_email")
    /\ LET out == ConfirmationOutcome(rows, j.rid, delivered)
       IN  /\ last' = Ran("send_confirmation_email", j.rid, out)
           /\ sent' = IF out = "email_sent"
                      THEN sent (+) SetToBag({Mail("confirmation", j.rid)})
                      ELSE sent
           /\ CopiesIn(Mail("confirmation", j.rid), sent') <= MaxDeliveries
    /\ UNCHANGED <<now, advances, redis_client, redis, cache, rows, queue,
                   lock, pc, inst>>

\* cleanup_expired_reservations: the candidates of its first query
SweepCandidates(rs, t) ==
    {i \in Visible(rs) :
        rs[i].status = PENDING /\ rs[i].expires_at # NoTime /\ rs[i].expires_at < t}

\* cleanup_expired_reservations: one candidate, re-read and saved in its own
\* atomic block; an exception of save() is logged and the loop goes on
SweepRow(rs, i, t) ==
    IF rs[i].status = PENDING /\ IsExpired(InstOf(rs, i), t)
       /\ FullClean(rs, [InstOf(rs, i) EXCEPT !.status = EXPIRED], t)
    THEN [rs[i] EXCEPT !.status = EXPIRED]
    ELSE rs[i]

\* cleanup_expired_reservations().  Its first query is a select_for_update:
\* evaluated outside a transaction it raises and the task returns
\* cleanup_failed; inside one it holds the candidate rows to the end.
Sweep(in_transaction) ==
    /\ IF in_transaction
       THEN /\ rows' = [i \in 1..Len(rows) |->
                          IF i \in SweepCandidates(rows, now)
                          THEN SweepRow(rows, i, now) ELSE rows[i]]
            /\ last' = Ran("cleanup_expired_reservations", 0, "completed")
       ELSE /\ rows' = rows
            /\ last' = Ran("cleanup_expired_reservations", 0, "cleanup_failed")
    /\ UNCHANGED <<now, advances, redis_client, redis, cache, queue, sent,
                   lock, pc, inst>>

-----------------------------------------------------------------------------
(* ReservationViewSet.create: POST /reservations.  The handler takes the   *)
(* slot lock, opens a transaction, checks for conflicts, creates the row,  *)
(* enqueues its jobs, commits and releases the lock.                       *)

\* Mutant: a lookup that takes a cached False for a miss
CacheLiveTruthy(c, k, t) == t < c[k].exp /\ c[k].val

\* cache.get(key): the entry is there until its timeout
CacheLive(c, k, t) == t < c[k].exp

\* check_table_availability: "available = not conflicts", from the table
Available(rs, k) == ~ \E i \in Visible(rs) : rs[i].slot = k /\ Active(rs[i])

\* check_table_availability: cache.set(cache_key, available, 600 or 120)
CacheSet(c, k, available, t) ==
    [c EXCEPT ![k].val = available,
              ![k].exp = t + IF available THEN TtlAvailable ELSE TtlUnavailable]

\* cache.delete(cache_key)
CacheDelete(c, k) == [c EXCEPT ![k] = NoCache]

\* A check_table_availability(use_cache=True) call starts on key k.
CacheRead(c, k) == [c EXCEPT ![k].read = TRUE]

\* Mutant: a conflicts check that trusts a cached availability entry
ConflictsCached(rs, k) ==
    IF now < cache[k].exp THEN ~cache[k].val
    ELSE \E i \in Visible(rs) : rs[i].slot = k /\ Active(rs[i])

\* Mutant: a view without its IntegrityError handler
CreateStatusUnhandled(outcome) ==
    CASE outcome = "created" -> "201"
      [] outcome = "conflicts" -> "409"
      [] outcome = "ValidationError" -> "400"
      [] outcome = "LockAcquisitionError" -> "429"
      [] OTHER -> "500"

\* The HTTP status the handler answers with for each way it ends
CreateStatus(outcome) ==
    CASE outcome = "created" -> "201"
      [] outcome = "conflicts" -> "409"
      [] outcome = "IntegrityError" -> "409"
      [] outcome = "ValidationError" -> "400"
      [] outcome = "LockAcquisitionError" -> "429"
      [] OTHER -> "500"

\* The response of the handler: how it ended and the HTTP status
ApiResp(p, outcome) ==
    [proc |-> p, op |-> "create", rid |-> 0, result |-> outcome,
     status |-> CreateStatus(outcome)]

\* The request arrives: TableReservationLock(table, date, time, 45, 5)
CreateStart(p, k, f) ==
    /\ pc[p] = "idle"
    /\ lock' = [lock EXCEPT ![p] = NewLock(k, f, lock_timeout, max_retries)]
    /\ inst' = [inst EXCEPT ![p] = [NoInst EXCEPT !.slot = k, !.status = PENDING,
                                       !.party_size = DefaultPartySize]]
    /\ pc' = [pc EXCEPT ![p] = "acquire"]
    /\ UNCHANGED <<now, advances, redis_client, redis, cache, rows, queue,
                   sent, last>>

\* __enter__: one pass of acquire's loop; LockAcquisitionError after the last
CreateAcquire(p) ==
    /\ pc[p] = "acquire"
    /\ redis' = AcquireRedis(lock[p])
    /\ LET out == AcquireOutcome(lock[p])
       IN  IF out = "false"
           THEN /\ last' = ApiResp(p, "LockAcquisitionError")
                /\ lock' = [lock EXCEPT ![p] = NoLock]
                /\ inst' = [inst EXCEPT ![p] = NoInst]
                /\ pc' = [pc EXCEPT ![p] = "idle"]
           ELSE /\ lock' = [lock EXCEPT ![p] =
                               IF out = "retry" THEN AcquireLock(lock[p])
                               ELSE [AcquireLock(lock[p]) EXCEPT !.attempt = 0,
                                                            !.slept = 0]]
                /\ pc' = [pc EXCEPT ![p] =
                             IF out = "true" THEN "check" ELSE "acquire"]
                /\ UNCHANGED <<inst, last>>
    /\ UNCHANGED <<now, advances, redis_client, cache, rows, queue, sent>>

\* The handler returns from inside the lock's with block: the transaction
\* ends, __exit__ calls release(), the response goes out
CreateReturn(p, outcome) ==
    /\ redis' = ReleaseRedis(lock[p])
    /\ last' = ApiResp(p, outcome)
    /\ lock' = [lock EXCEPT ![p] = NoLock]
    /\ inst' = [inst EXCEPT ![p] = NoInst]
    /\ pc' = [pc EXCEPT ![p] = "idle"]

\* Mutant: a conflicts query that passes over a reservation past its expiry
ConflictsLazy(rs, k) ==
    \E i \in Visible(rs) :
        rs[i].slot = k /\ Active(rs[i])
        /\ ~(rs[i].status = PENDING /\ IsExpired(rs[i], now))

\* The conflicts query of the view: committed active rows of the slot
Conflicts(rs, k) == \E i \in Visible(rs) : rs[i].slot = k /\ Active(rs[i])

\* cache.delete(cache_key), the key formatted from the request as the lock
\* key is; transaction.atomic() begins; conflicts query on the values
CreateCheck(p) ==
    /\ pc[p] = "check"
    /\ cache' = CacheDelete(cache, inst[p].slot)
    /\ IF Conflicts(rows, ToPython(inst[p].slot))
       THEN CreateReturn(p, "conflicts")
       ELSE /\ pc' = [pc EXCEPT ![p] = "clean"]
            /\ UNCHANGED <<redis, last, lock, inst>>
    /\ UNCHANGED <<now, advances, redis_client, rows, queue, sent>>

\* Reservation.objects.create -> save(): expires_at and full_clean(), whose
\* clean_fields() turns the fields of the request into values
CreateClean(p) ==
    /\ pc[p] = "clean"
    /\ LET r == WithExpiry([inst[p] EXCEPT !.slot = ToPython(@)], now)
       IN  IF FullClean(rows, r, now)
           THEN /\ inst' = [inst EXCEPT ![p] = r]
                /\ pc' = [pc EXCEPT ![p] = "insert"]
                /\ UNCHANGED <<redis, last, lock>>
           ELSE CreateReturn(p, "ValidationError")
    /\ UNCHANGED <<now, advances, redis_client, cache, rows, queue, sent>>

\* The apply_async calls of a creation: save()'s schedule_expiration, the
\* view's confirmation mail, the view's expiration job
Enqueues == {"schedule_expiration", "send_confirmation_email",
             "expire_reservation"}

\* The jobs the handler enqueues after the row is written, inside the
\* transaction: save()'s scheduling, the confirmation mail, expiration again.
\* Each call sits in a try/except: the calls in down raise, are logged, and
\* enqueue nothing.
CreateJobs(q, r, t, down) ==
    LET q1 == IF "schedule_expiration" \in down THEN q
              ELSE AfterSave(q, r, "", t)
        q2 == IF "send_confirmation_email" \in down THEN q1
              ELSE Enqueue(q1, Job("send_confirmation_email", r.rid, t + 2))
    IN  IF r.status = PENDING /\ r.expires_at # NoTime
           /\ "expire_reservation" \notin down
        THEN Enqueue(q2, Job("expire_reservation", r.rid, r.expires_at))
        ELSE q2

\* Mutant: a handler that enqueues its jobs whether or not the row went in
CreateEnqueuedEarly(q, rs, r, t, down) == CreateJobs(q, r, t, down)

\* The queue after the INSERT of r was tried: the enqueues follow
\* super().save() and are not reached when it raises IntegrityError
CreateEnqueued(q, rs, r, t, down) ==
    IF UniqueActive(rs, r) THEN CreateJobs(q, r, t, down) ELSE q

\* Mutant: an enqueue that raises ends the handler
InsertOutcomeUnguarded(rs, r, down) ==
    IF ~UniqueActive(rs, r) THEN "IntegrityError"
    ELSE IF down # {} THEN "Exception"
    ELSE "inserted"

\* How Reservation.objects.create and the enqueues that follow it end: the
\* INSERT raises IntegrityError or goes in; no enqueue raises past its except
InsertOutcome(rs, r, down) ==
    IF ~UniqueActive(rs, r) THEN "IntegrityError" ELSE "inserted"

\* save(): super().save() INSERTs the row; then lock.extend_lock(30) and the
\* enqueues, of which those in down fail.  An exception ends the handler
\* with nothing written.
CreateInsertBroker(p, down) ==
    /\ pc[p] = "insert"
    /\ LET r == [inst[p] EXCEPT !.rid = Len(rows) + 1]
           out == InsertOutcome(rows, r, down)
       IN  /\ NotBlocked(rows, r)
           /\ UniqueActive(rows, r) => Len(rows) < MaxRows
           /\ queue' = CreateEnqueued(queue, rows, r, now, down)
           /\ IF out = "inserted"
              THEN /\ rows' = Append(rows, Row(r, FALSE))
                   /\ redis' = ExtendRedis(lock[p], additional_time)
                   /\ inst' = [inst EXCEPT ![p] = r]
                   /\ pc' = [pc EXCEPT ![p] = "commit"]
                   /\ UNCHANGED <<last, lock>>
              ELSE /\ CreateReturn(p, out)
                   /\ UNCHANGED rows
    /\ UNCHANGED <<now, advances, redis_client, cache, sent>>

\* The same with the broker reachable: every enqueue goes through
CreateInsert(p) == CreateInsertBroker(p, {})

\* The atomic block exits with COMMIT and the handler returns 201
CreateCommit(p) ==
    /\ pc[p] = "commit"
    /\ rows' = [rows EXCEPT ![inst[p].rid].committed = TRUE]
    /\ CreateReturn(p, "created")
    /\ UNCHANGED <<now, advances, redis_client, cache, queue, sent>>

-----------------------------------------------------------------------------
(* The store specification: the life of one reservation.  One worker       *)
(* creates it and writes its status through the model while the scheduled  *)
(* jobs and the sweep run and time passes.                                  *)

StoreProcs == {1}
StoreSteps == {RESERVATION_PENDING_TIMEOUT * SecondsPerMinute}

NextStore ==
    \/ \E p \in StoreProcs, k \in Slots : rows = <<>> /\ ModelCreate(p, k, PENDING)
    \/ \E p \in StoreProcs, i \in 1..MaxRows : Load(p, i)
    \/ \E p \in StoreProcs, st \in Status : ModelSave(p, st)
    \/ \E p \in StoreProcs, st \in Status : SerializerUpdate(p, st)
    \/ \E j \in BagToSet(queue) : ExpireJob(j)
    \/ \E j \in BagToSet(queue) : ScheduleReminderJob(j)
    \/ \E j \in BagToSet(queue), delivered \in BOOLEAN : ReminderJob(j, delivered)
    \/ \E in_transaction \in BOOLEAN : Sweep(in_transaction)
    \/ \E d \in StoreSteps : Advance(d)

InitStore == Init /\ redis_client = "client"

SpecStore == InitStore /\ [][NextStore]_vars

-----------------------------------------------------------------------------
(* Status transitions and scheduled jobs: properties of SpecStore *)

\* C6: every status change that is not an edge of the transition table is
\* rejected on every write path, so the stored status of a reservation only
\* ever moves along an edge of the table and a terminal status never changes.
C6_OnlyTableEdges ==
    [][\A i \in 1..Len(rows) :
          rows'[i].status # rows[i].status
              => rows'[i].status \in AllowedTransitions(rows[i].status)]_vars

\* C7: a transition of the table, attempted through the model or the
\* serializer on a reservation whose stored status is its From state, is
\* accepted and persisted at whatever time it is attempted.
C7_TableEdgesAccepted ==
    [][\A p \in StoreProcs, st \in Status :
          /\ ModelSave(p, st) \/ SerializerUpdate(p, st)
          /\ inst[p].status = rows[inst[p].rid].status
          /\ st \in AllowedTransitions(rows[inst[p].rid].status)
          => /\ rows'[inst[p].rid].status = st
             /\ last' = StatusResp(p, "ok")]_vars

\* C8: the expiration job run on a PENDING reservation with now >= expires_at
\* stores EXPIRED; run on any other reservation it changes nothing.
C8_ExpireJobExpiresDuePending ==
    [][\A j \in BagToSet(queue) :
          ExpireJob(j) /\ j.rid \in Visible(rows)
          => IF rows[j.rid].status = PENDING /\ now >= rows[j.rid].expires_at
             THEN rows'[j.rid].status = EXPIRED
             ELSE rows' = rows]_vars

\* C9: the expiration job is idempotent: no execution raises an error, and an
\* execution that follows one which expired the reservation changes nothing.
C9_ExpireJobIdempotent ==
    /\ [](last.op = "expire_reservation"
             => last.result \in {"expired", "unchanged", "not_found"})
    /\ [][\A j \in BagToSet(queue) :
            ExpireJob(j) /\ last = Ran("expire_reservation", j.rid, "expired")
                => rows' = rows]_vars

\* C10: the reminder job sends a mail only for a reservation that is
\* CONFIRMED when it runs; for any other status it sends nothing, returns
\* without an error and leaves the table as it was.
C10_ReminderOnlyWhenConfirmed ==
    [][\A j \in BagToSet(queue), delivered \in BOOLEAN :
          ReminderJob(j, delivered) /\ j.rid \in Visible(rows)
          => /\ sent' # sent => rows[j.rid].status = CONFIRMED
             /\ rows' = rows
             /\ rows[j.rid].status # CONFIRMED
                    => sent' = sent /\ last'.result = "not_confirmed"]_vars

\* C10 witness: the reminder of a reservation that was confirmed and then
\* cancelled ran: nothing was sent and the reservation is still CANCELLED.
C10_Witness ==
    /\ last = Ran("send_reminder", 1, "not_confirmed")
    /\ Len(rows) >= 1 /\ rows[1].status = CANCELLED
    /\ sent = EmptyBag

\* C11: the reminder job is idempotent under repeated delivery: an execution
\* that follows one which sent the reminder of the same reservation leaves
\* the mails sent and the table as they were.
C11_ReminderIdempotent ==
    [][\A j \in BagToSet(queue), delivered \in BOOLEAN :
          ReminderJob(j, delivered)
          /\ last = Ran("send_reminder", j.rid, "reminder_sent")
          => sent' = sent /\ rows' = rows]_vars

\* C12: no execution of the reminder job changes a field of a reservation,
\* whether the mail is delivered, delivery fails, or the job runs again.
C12_ReminderWritesNothing ==
    [][\A j \in BagToSet(queue), delivered \in BOOLEAN :
          ReminderJob(j, delivered) => rows' = rows]_vars

\* C12 witness: the reminder of a CONFIRMED reservation was delivered, the
\* job ran again, delivery failed that time and the job asked for a retry.
C12_Witness ==
    /\ last = Ran("send_reminder", 1, "retry")
    /\ CopiesIn(Mail("reminder", 1), sent) >= 1
    /\ Len(rows) >= 1 /\ rows[1].status = CONFIRMED

\* C13: a reservation created as PENDING with no expiry given gets
\* expires_at = now + RESERVATION_PENDING_TIMEOUT minutes, and an expiration
\* job for its id is enqueued whose eta is that expires_at and no other.
C13_PendingCreateSchedulesExpiry ==
    [][\A p \in StoreProcs, k \in Slots :
          ModelCreate(p, k, PENDING) /\ last'.result = "ok"
          => LET i == Len(rows')
                 at == now + RESERVATION_PENDING_TIMEOUT * SecondsPerMinute
             IN  /\ i = Len(rows) + 1
                 /\ rows'[i].status = PENDING
                 /\ rows'[i].expires_at = at
                 /\ \A j \in BagToSet(queue') :
                        j.kind = "expire_reservation" /\ j.rid = i => j.eta = at
                 /\ BagIn(Job("expire_reservation", i, at), queue')]_vars

\* C13 witness: the first reservation was created at the start of the clock
\* and its expiration job waits in the queue for 15 minutes later.
C13_Witness ==
    /\ last = Resp(1, "create", "ok")
    /\ Len(rows) = 1 /\ rows[1].status = PENDING
    /\ rows[1].expires_at =
          StartTime + RESERVATION_PENDING_TIMEOUT * SecondsPerMinute
    /\ BagIn(Job("expire_reservation", 1, rows[1].expires_at), queue)

-----------------------------------------------------------------------------
(* The availability cache: check_table_availability reads through it, the  *)
(* creation handler deletes the slot's entry before its own check.         *)

\* check_table_availability(table_id, date, time_slot, use_cache)
CheckAvailability(k, use_cache) ==
    /\ LET hit == use_cache /\ CacheLive(cache, k, now)
           available == IF hit THEN cache[k].val ELSE Available(rows, k)
       IN  /\ cache' = IF use_cache /\ ~hit
                       THEN CacheSet(CacheRead(cache, k), k, available, now)
                       ELSE IF use_cache THEN CacheRead(cache, k)
                       ELSE cache
           /\ last' = Resp(0, "check_table_availability",
                           IF available THEN "true" ELSE "false")
    /\ UNCHANGED <<now, advances, redis_client, redis, rows, queue, sent,
                   lock, pc, inst>>

\* check_table_availability next to other callers, statement by statement.
\* First part: the cache misses and the table is queried.
GetQuery(p, k) ==
    /\ pc[p] = "idle"
    /\ ~CacheLive(cache, k, now)
    /\ cache' = CacheRead(cache, k)
    /\ inst' = [inst EXCEPT ![p] = [NoInst EXCEPT !.slot = k]]
    /\ pc' = [pc EXCEPT ![p] =
                 IF Available(rows, k) THEN "set_true" ELSE "set_false"]
    /\ UNCHANGED <<now, advances, redis_client, redis, rows, queue, sent,
                   lock, last>>

\* Second part: cache.set of the value that was computed, and the return
GetStore(p) ==
    /\ pc[p] \in {"set_true", "set_false"}
    /\ cache' = CacheSet(cache, inst[p].slot, pc[p] = "set_true", now)
    /\ last' = Resp(p, "check_table_availability",
                    IF pc[p] = "set_true" THEN "true" ELSE "false")
    /\ inst' = [inst EXCEPT ![p] = NoInst]
    /\ pc' = [pc EXCEPT ![p] = "idle"]
    /\ UNCHANGED <<now, advances, redis_client, redis, rows, queue, sent,
                   lock>>

\* invalidate_table_availability_cache(table_id, date, time_slot)
Invalidate(k) ==
    /\ cache' = CacheDelete(cache, k)
    /\ last' = Resp(0, "invalidate_table_availability_cache", "None")
    /\ UNCHANGED <<now, advances, redis_client, redis, rows, queue, sent,
                   lock, pc, inst>>

-----------------------------------------------------------------------------
(* Concurrent saves: two workers read a reservation and save a new status  *)
(* on it, the statements of their save() calls interleaving.               *)

\* The statuses written through the model: an active one and a terminal one
SavedStatus == {CONFIRMED, CANCELLED}

NextConfirm ==
    \/ \E p \in Procs, k \in Slots : rows = <<>> /\ ModelCreate(p, k, PENDING)
    \/ \E p \in Procs, i \in 1..MaxRows : Load(p, i)
    \/ \E p \in Procs, st \in SavedStatus : SaveBegin(p, st)
    \/ \E p \in Procs : SaveEnd(p)
    \/ \E j \in BagToSet(queue) : ScheduleReminderJob(j)
    \/ \E d \in StoreSteps : Advance(d)

SpecConfirm == InitStore /\ [][NextConfirm]_vars

\* C15: a save that changes the stored status from PENDING to CONFIRMED
\* enqueues one schedule_reminder job, no other save enqueues one, and the
\* job schedules the reminder for the reservation's date-time minus 24 hours.
C15_ReminderOnlyOnConfirmation ==
    [][/\ \A p \in Procs :
            SaveEnd(p) =>
               LET i == inst[p].rid
                   job == Job("schedule_reminder", i, NoTime)
               IN  CopiesIn(job, queue) < MaxCopies =>
                     CopiesIn(job, queue') =
                        IF rows[i].status = PENDING /\ rows'[i].status = CONFIRMED
                        THEN CopiesIn(job, queue) + 1
                        ELSE CopiesIn(job, queue)
       /\ \A j \in BagToSet(queue) :
            ScheduleReminderJob(j) /\ j.rid \in Visible(rows) =>
               BagIn(Job("send_reminder", j.rid,
                         ReservationDatetime(rows[j.rid])
                            - 24 * SecondsPerHour), queue')]_vars

-----------------------------------------------------------------------------
(* The whole system: requests to the API, writes through the model, the    *)
(* expiration job and the sweep, by two workers, while time passes.         *)

\* Requests are for tomorrow's slot; time passes a pending timeout at a time.
ApiSlots == {Slot2}
Steps == {RESERVATION_PENDING_TIMEOUT * SecondsPerMinute}

\* The clock readings of the requests count whole seconds here.
ApiFractions == {0}

Next ==
    \/ \E p \in Procs, k \in ApiSlots, f \in ApiFractions : CreateStart(p, k, f)
    \/ \E p \in Procs : CreateAcquire(p)
    \/ \E p \in Procs : CreateCheck(p)
    \/ \E p \in Procs : CreateClean(p)
    \/ \E p \in Procs : CreateInsert(p)
    \/ \E p \in Procs : CreateCommit(p)
    \/ \E p \in StoreProcs, i \in 1..MaxRows, st \in SavedStatus :
          ModelUpdate(p, i, st)
    \/ \E j \in BagToSet(queue) : ExpireJob(j)
    \/ \E in_transaction \in BOOLEAN : Sweep(in_transaction)
    \/ \E d \in Steps : Advance(d)

Spec == Init /\ [][Next]_vars

\* C1: in every reachable state each (table, date, time) has at most one
\* reservation whose status is PENDING or CONFIRMED, committed or not.
C1_OneActivePerSlot ==
    \A i, j \in 1..Len(rows) :
        i # j /\ rows[i].slot = rows[j].slot
            => ~(Active(rows[i]) /\ Active(rows[j]))

\* C1 witness: a create passed the view's check and the model's validation,
\* reached the database with the slot taken and was stopped by the constraint.
C1_Witness ==
    \E p \in Procs :
        /\ last = ApiResp(p, "IntegrityError")
        /\ \E i, j \in 1..Len(rows) :
              /\ i # j /\ rows[i].slot = rows[j].slot
              /\ Active(rows[i]) /\ ~Active(rows[j])

-----------------------------------------------------------------------------
(* The race: the two workers serve requests for the same free slot.        *)

RaceSteps == {additional_time, lock_timeout}

NextRace ==
    \/ \E p \in Procs, k \in ApiSlots, f \in Fractions : CreateStart(p, k, f)
    \/ \E p \in Procs : CreateAcquire(p)
    \/ \E p \in Procs : CreateCheck(p)
    \/ \E p \in Procs : CreateClean(p)
    \/ \E p \in Procs : CreateInsert(p)
    \/ \E p \in Procs : CreateCommit(p)
    \/ \E d \in RaceSteps : Advance(d)

SpecRace == Init /\ [][NextRace]_vars

\* Worker p's request ends in this step.
Answers(p) == pc[p] # "idle" /\ pc'[p] = "idle"

\* Every row of the table is committed, active, and alone on its slot.
OnePersisted(rs) ==
    /\ Len(rs) = 1
    /\ rs[1].committed /\ Active(rs[1])

C14_OneExpirationJobPerCreate ==
    [][\A p \in Procs :
          CreateInsert(p) /\ pc'[p] = "commit"
          => CopiesIn(Job("expire_reservation", inst'[p].rid,
                          inst'[p].expires_at), queue') = 1]_vars

RefusedForSlot(p) ==
    \/ pc[p] = "check" /\ Conflicts(rows, inst[p].slot)
    \/ pc[p] = "clean" /\ ~ValidateNoDoubleBooking(rows, inst[p])
    \/ pc[p] = "insert"
          /\ ~UniqueActive(rows, [inst[p] EXCEPT !.rid = Len(rows) + 1])

\* C17: every creation attempt refused because the slot already has an
\* active reservation is answered 409, never 400 or 500.
C17_SlotTakenIsConflict ==
    [][\A p \in Procs :
          Answers(p) /\ RefusedForSlot(p) => last'.status = "409"]_vars

\* A step of the handler serving worker p's request
CreateStep(p) ==
    \/ CreateAcquire(p)
    \/ CreateCheck(p)
    \/ CreateClean(p)
    \/ CreateInsert(p)
    \/ CreateCommit(p)

\* The race with workers that keep running: the thread serving a request
\* takes its next step whenever it can.
SpecRaceFair == SpecRace /\ \A p \in Procs : WF_vars(CreateStep(p))

C19_RefusalLeavesNoTrace ==
    [][\A p \in Procs :
          /\ Answers(p) /\ last'.status \in {"409", "429", "400"}
                => rows' = rows /\ queue' = queue /\ pc[p] # "commit"
          /\ CreateStep(p) /\ (rows' # rows \/ queue' # queue)
                => pc'[p] = "commit" \/ pc[p] = "commit"
          /\ Answers(p) /\ pc[p] = "commit" => last'.status = "201"]_vars

\* C19 witness: a request whose insert was rejected by the constraint was
\* answered 409; the table and the queue hold the winner's row and jobs only.
C19_Witness ==
    /\ last.op = "create" /\ last.result = "IntegrityError"
    /\ last.status = "409"
    /\ OnePersisted(rows)
    /\ \A j \in BagToSet(queue) : j.rid = 1

-----------------------------------------------------------------------------
(* Creation next to the availability cache: one worker serves requests for *)
(* a slot, the other creates and updates reservations through the model,   *)
(* availability checks fill the cache, and time passes by the timeouts of  *)
(* the cache entries.                                                      *)

\* Time passes by the timeout of an "unavailable" entry.
CacheSteps == {TtlUnavailable}

\* The worker that serves the API
ApiProcs == Procs \ StoreProcs

NextCache ==
    \/ \E p \in ApiProcs, k \in ApiSlots, f \in ApiFractions :
          CreateStart(p, k, f)
    \/ \E p \in ApiProcs : CreateAcquire(p)
    \/ \E p \in ApiProcs : CreateCheck(p)
    \/ \E p \in ApiProcs : CreateClean(p)
    \/ \E p \in ApiProcs : CreateInsert(p)
    \/ \E p \in ApiProcs : CreateCommit(p)
    \/ \E p \in StoreProcs, k \in ApiSlots : ModelCreate(p, k, PENDING)
    \/ \E p \in StoreProcs, i \in 1..MaxRows : ModelUpdate(p, i, CANCELLED)
    \/ \E k \in ApiSlots, use_cache \in BOOLEAN : CheckAvailability(k, use_cache)
    \/ \E p \in StoreProcs, k \in ApiSlots : GetQuery(p, k)
    \/ \E p \in StoreProcs : GetStore(p)
    \/ \E k \in ApiSlots : Invalidate(k)
    \/ \E d \in CacheSteps : Advance(d)

SpecCache == InitStore /\ [][NextCache]_vars

\* The table has a committed active reservation of slot k.
StoreTaken(k) ==
    \E i \in 1..Len(rows) :
        rows[i].committed /\ rows[i].slot = k
            /\ rows[i].status \in {PENDING, CONFIRMED}

\* The table has an active reservation of slot k, committed or not.
StoreHolds(k) ==
    \E i \in 1..Len(rows) :
        rows[i].slot = k /\ rows[i].status \in {PENDING, CONFIRMED}

\* C20: the outcome of a creation attempt does not depend on the cache.  Each
\* deciding step of the handler ends the attempt exactly when the table says
\* so, whatever the slot's cache entry holds (nothing, true or false): the
\* check answers 409 iff a committed active reservation of the slot exists
\* and deletes the entry, the validation answers 400 iff one exists then, the
\* insert answers 409 iff the constraint is violated, the commit answers 201.
C20_CacheNeverDecides ==
    [][\A p \in Procs :
          /\ CreateCheck(p) =>
                /\ Answers(p) <=> StoreTaken(inst[p].slot)
                /\ Answers(p) => last' = ApiResp(p, "conflicts")
                /\ ~CacheLive(cache', inst[p].slot, now)
          /\ CreateClean(p) =>
                /\ Answers(p) <=> StoreTaken(inst[p].slot)
                /\ Answers(p) => last' = ApiResp(p, "ValidationError")
          /\ CreateInsert(p) =>
                /\ Answers(p) <=> StoreHolds(inst[p].slot)
                /\ Answers(p) => last' = ApiResp(p, "IntegrityError")
          /\ CreateCommit(p) => last' = ApiResp(p, "created")
          /\ CreateStep(p) => \A k \in Slots :
                cache'[k] # cache[k] => cache'[k] = NoCache]_vars

\* C20 witness: the cache says the slot is available, the table holds an
\* active reservation of it, and the request that ended last was refused.
C20_Witness ==
    \E k \in ApiSlots :
        /\ CacheLive(cache, k, now) /\ cache[k].val
        /\ StoreTaken(k)
        /\ last.op = "create" /\ last.status \in {"400", "409"}

\* C21: after the entry of a slot was deleted, the first availability check
\* that starts on the slot returns what the table says at that moment (false
\* iff a committed active reservation of the slot exists), not a value from
\* before the deletion.
C21_GetAfterInvalidateReadsStore ==
    [][\A k \in Slots :
          /\ Invalidate(k) => ~CacheLive(cache', k, now)
          /\ CheckAvailability(k, TRUE) /\ ~cache[k].read
                => last'.result = IF StoreTaken(k) THEN "false" ELSE "true"]_vars

\* C22: an availability check returns the cached boolean when the slot has
\* an entry whose timeout has not run out, a cached false included, and
\* leaves the entry alone; on a miss it returns "no committed active
\* reservation of the slot exists" and stores that value, for 600 s when it
\* is true and 120 s when it is false.
C22_GetReadsThroughCache ==
    [][\A k \in Slots :
          CheckAvailability(k, TRUE) =>
             IF now < cache[k].exp
             THEN /\ last'.result = IF cache[k].val THEN "true" ELSE "false"
                  /\ cache'[k].val = cache[k].val
                  /\ cache'[k].exp = cache[k].exp
             ELSE /\ last'.result = IF StoreTaken(k) THEN "false" ELSE "true"
                  /\ cache'[k].val = ~StoreTaken(k)
                  /\ cache'[k].exp =
                        now + IF StoreTaken(k) THEN 120 ELSE 600]_vars

\* C22 witness: the slot was cached as unavailable, its reservation was
\* cancelled, and a check made before the timeout returned the cached false.
C22_Witness ==
    \E k \in ApiSlots :
        /\ last = Resp(0, "check_table_availability", "false")
        /\ now < cache[k].exp /\ ~cache[k].val
        /\ ~StoreTaken(k)
        /\ cache[k].exp <= now + TtlUnavailable

-----------------------------------------------------------------------------
(* Booking a slot again: one worker serves requests for a slot, the other  *)
(* cancels reservations through the model, the expiration job runs,        *)
(* availability checks fill the cache, and time passes.                    *)

RebookSteps == {TtlUnavailable, RESERVATION_PENDING_TIMEOUT * SecondsPerMinute}

NextRebook ==
    \/ \E p \in ApiProcs, k \in ApiSlots, f \in ApiFractions :
          CreateStart(p, k, f)
    \/ \E p \in ApiProcs : CreateStep(p)
    \/ \E p \in StoreProcs, i \in 1..MaxRows : ModelUpdate(p, i, CANCELLED)
    \/ \E j \in BagToSet(queue) : ExpireJob(j)
    \/ \E k \in ApiSlots : CheckAvailability(k, TRUE)
    \/ \E d \in RebookSteps : Advance(d)

SpecRebook == InitStore /\ [][NextRebook]_vars

\* Slot k has an active reservation other than row i, committed or not.
TakenByOther(k, i) ==
    \E n \in 1..Len(rows) :
        n # i /\ rows[n].slot = k /\ rows[n].status \in {PENDING, CONFIRMED}

\* C23: once the reservations of a slot have left the active statuses (the
\* expiration job expired them, or they were cancelled), a creation attempt
\* for the slot that runs alone is never refused, whatever the cache holds:
\* none of its steps ends it with anything but 201, and it gets past the
\* check even when the cache says the slot is unavailable.
C23_FreedSlotIsBookable ==
    [][\A p \in ApiProcs :
          /\ (\A q \in Procs \ {p} : pc[q] = "idle")
          /\ ~TakenByOther(inst[p].slot, inst[p].rid)
          => /\ Answers(p) => last' = ApiResp(p, "created")
                              /\ last'.status = "201"
                              /\ Active(rows'[Len(rows')])
                              /\ rows'[Len(rows')].committed
             /\ CreateCheck(p) => pc'[p] = "clean"]_vars

\* C23 witness: the first reservation of the slot was expired by the
\* expiration job and a later request for the slot was answered 201.
C23_Witness ==
    \E p \in ApiProcs :
        /\ last = ApiResp(p, "created")
        /\ Len(rows) = 2
        /\ rows[1].status = EXPIRED
        /\ rows[2].slot = rows[1].slot
        /\ rows[2].status = PENDING /\ rows[2].committed

-----------------------------------------------------------------------------
(* Two slots: the two workers serve requests for tomorrow's slots of two   *)
(* tables while time passes.                                                *)

TwoSlots == {Slot2, Slot3}

NextSlots ==
    \/ \E p \in Procs, k \in TwoSlots, f \in ApiFractions : CreateStart(p, k, f)
    \/ \E p \in Procs : CreateStep(p)
    \/ Advance(lock_timeout)

SpecSlots == Init /\ [][NextSlots]_vars

\* Worker q has a request for slot k in flight.
InFlight(q, k) == pc[q] # "idle" /\ inst[q].slot = k

\* C24: whatever the other slots hold (a lock, an active reservation, a
\* request in flight), a request for slot S, with no other request for S in
\* flight, no lock on S and no active reservation of S but its own, takes
\* the lock at the first pass, is not refused, and is answered 201.
C24_SlotsIndependent ==
    [][\A p \in Procs :
          /\ pc[p] # "idle"
          /\ (\A q \in Procs \ {p} : ~InFlight(q, inst[p].slot))
          /\ ~TakenByOther(inst[p].slot, inst[p].rid)
          => /\ CreateAcquire(p) /\ ~Live(redis, inst[p].slot, now)
                  => pc'[p] = "check"
             /\ CreateCheck(p) => pc'[p] = "clean"
             /\ Answers(p) /\ lock[p].granted
                  => last' = ApiResp(p, "created")]_vars

\* C24 witness: a request was answered 201 while the other worker held the
\* lock of the other slot and that slot had an active reservation.
C24_Witness ==
    \E p, q \in Procs :
        /\ p # q
        /\ last = ApiResp(p, "created")
        /\ pc[q] = "commit"
        /\ inst[q].slot # rows[Len(rows)].slot
        /\ Live(redis, inst[q].slot, now)
        /\ RedisGet(redis, inst[q].slot, now) = lock[q].value
        /\ \E n \in 1..Len(rows) :
              rows[n].slot = inst[q].slot /\ Active(rows[n])

-----------------------------------------------------------------------------
(* Round trip: one worker serves creation requests, the other reads        *)
(* reservations back through the API, while time passes.                   *)

\* retrieve: Reservation.objects.get(pk=i), answered 200 with the status of
\* the reservation read, or 404; inst[p] is the reservation the view read
Retrieve(p, i) ==
    /\ pc[p] = "idle"
    /\ IF i \in Visible(rows)
       THEN /\ inst' = [inst EXCEPT ![p] = InstOf(rows, i)]
            /\ last' = [proc |-> p, op |-> "retrieve", rid |-> i,
                        result |-> rows[i].status, status |-> "200"]
       ELSE /\ inst' = [inst EXCEPT ![p] = NoInst]
            /\ last' = [proc |-> p, op |-> "retrieve", rid |-> i,
                        result |-> "DoesNotExist", status |-> "404"]
    /\ UNCHANGED <<now, advances, redis_client, redis, cache, rows, queue,
                   sent, lock, pc>>

NextRound ==
    \/ \E p \in ApiProcs, k \in TwoSlots, f \in ApiFractions :
          CreateStart(p, k, f)
    \/ \E p \in ApiProcs : CreateStep(p)
    \/ \E p \in StoreProcs, i \in 1..MaxRows : Retrieve(p, i)
    \/ \E d \in RaceSteps : Advance(d)

SpecRound == InitStore /\ [][NextRound]_vars

-----------------------------------------------------------------------------
(* The broker fails: one worker serves creation requests whose enqueues    *)
(* may raise, the expiration job runs, and time passes.                    *)

NextBroker ==
    \/ \E p \in ApiProcs, k \in TwoSlots, f \in ApiFractions :
          CreateStart(p, k, f)
    \/ \E p \in ApiProcs : CreateAcquire(p)
    \/ \E p \in ApiProcs : CreateCheck(p)
    \/ \E p \in ApiProcs : CreateClean(p)
    \/ \E p \in ApiProcs, down \in SUBSET Enqueues : CreateInsertBroker(p, down)
    \/ \E p \in ApiProcs : CreateCommit(p)
    \/ \E j \in BagToSet(queue) : ExpireJob(j)
    \/ \E d \in Steps : Advance(d)

SpecBroker == InitStore /\ [][NextBroker]_vars

\* C26: whichever of its enqueues fail, a creation whose INSERT goes in
\* carries on to its commit with the row written as PENDING, and the commit
\* persists the row and answers 201.
C26_EnqueueFailureIsNotFatal ==
    [][\A p \in ApiProcs :
          /\ \A down \in SUBSET Enqueues :
                CreateInsertBroker(p, down)
                /\ UniqueActive(rows, [inst[p] EXCEPT !.rid = Len(rows) + 1])
                => /\ pc'[p] = "commit"
                   /\ Len(rows') = Len(rows) + 1
                   /\ rows'[Len(rows')].status = PENDING
                   /\ rows'[Len(rows')].slot = inst[p].slot
          /\ pc[p] = "commit" /\ Answers(p)
                => /\ last' = ApiResp(p, "created")
                   /\ last'.status = "201"
                   /\ rows'[inst[p].rid].committed
                   /\ rows'[inst[p].rid].status = rows[inst[p].rid].status]_vars

\* C26 witness: every enqueue of a creation failed, no job is queued, and
\* the creation was answered 201 with its PENDING reservation persisted.
C26_Witness ==
    \E p \in ApiProcs :
        /\ last = ApiResp(p, "created")
        /\ queue = EmptyBag
        /\ Len(rows) = 1
        /\ rows[1].committed /\ rows[1].status = PENDING

-----------------------------------------------------------------------------
(* The order of the steps of a creation: one worker serves creation        *)
(* requests while the jobs it enqueued run and time passes.                *)

OrderSteps == {additional_time, RESERVATION_PENDING_TIMEOUT * SecondsPerMinute}

NextOrder ==
    \/ \E p \in ApiProcs, k \in ApiSlots, f \in ApiFractions :
          CreateStart(p, k, f)
    \/ \E p \in ApiProcs : CreateStep(p)
    \/ \E j \in BagToSet(queue), delivered \in BOOLEAN :
          ConfirmationJob(j, delivered)
    \/ \E j \in BagToSet(queue) : ExpireJob(j)
    \/ \E d \in OrderSteps : Advance(d)

SpecOrder == InitStore /\ [][NextOrder]_vars

\* C27: every job in the queue is for a committed reservation, and no
\* execution of the confirmation mail or of the expiration job ends with
\* "not_found".
C27_EnqueuedAfterCommit ==
    /\ \A j \in BagToSet(queue) : j.rid \in Visible(rows)
    /\ last.op \in {"send_confirmation_email", "expire_reservation"}
          => last.result # "not_found"

-----------------------------------------------------------------------------
(* The slot key: the two workers serve requests for one slot whose time is *)
(* written in two ways, while time passes.                                  *)

NextKey ==
    \/ \E p \in Procs, k \in Writings, f \in ApiFractions : CreateStart(p, k, f)
    \/ \E p \in Procs : CreateStep(p)
    \/ Advance(lock_timeout)

SpecKey == InitStore /\ [][NextKey]_vars

\* C28: two requests in flight that denote the same (table, date, time)
\* have the same lock key, which is also the key of the cache entry they
\* delete.
C28_SlotKeyCanonical ==
    \A p, q \in Procs :
        /\ pc[p] # "idle" /\ pc[q] # "idle"
        /\ ToPython(lock[p].key) = ToPython(lock[q].key)
        => lock[p].key = lock[q].key

-----------------------------------------------------------------------------
(* The business rules: one worker creates reservations through the model   *)
(* for tables, dates, times and party sizes on both sides of every rule,   *)
(* and cancels them, while the days pass.                                   *)

RuleDates == {0, 1, MaxFutureDays, MaxFutureDays + 1}
RuleTimes == {OpeningHour - 1, OpeningHour, ClosingHour, ClosingHour + 1}
RuleSizes == {0, 1, TableCapacity, TableCapacity + 1, MaxPartySize + 1}
RuleSlots == {[table |-> 1, date |-> d, time |-> h] :
                 d \in RuleDates, h \in RuleTimes}

NextRules ==
    \/ \E p \in StoreProcs, k \in RuleSlots, n \in RuleSizes :
          ModelCreateOf(p, k, PENDING, n)
    \/ \E p \in StoreProcs, i \in 1..MaxRows : ModelUpdate(p, i, CANCELLED)
    \/ Advance(SecondsPerDay)

SpecRules == InitStore /\ [][NextRules]_vars

\* The business rules as stated, for slot k and a party of n at time t
RuleViolated(k, n, t) ==
    \/ k.time < OpeningHour \/ k.time > ClosingHour
    \/ k.date < Today(t) \/ k.date > Today(t) + MaxFutureDays
    \/ n < 1 \/ n > MaxPartySize \/ n > TableCapacity

\* C29: a creation for a slot with no active reservation is rejected with a
\* validation error, the table unchanged, exactly when the time is outside
\* 10:00-22:00, the date is past or more than 90 days ahead, or the party is
\* below 1, above 12 or above the capacity of the table; otherwise the row
\* is written.
C29_RejectedIffRuleViolated ==
    [][\A p \in StoreProcs, k \in RuleSlots, n \in RuleSizes :
          ModelCreateOf(p, k, PENDING, n) /\ ~StoreHolds(k)
          => IF RuleViolated(k, n, now)
             THEN last'.result = "ValidationError" /\ rows' = rows
             ELSE last'.result = "ok" /\ Len(rows') = Len(rows) + 1]_vars

-----------------------------------------------------------------------------
(* The expiration job called for any id: one worker creates a reservation  *)
(* through the model, callers submit expire_reservation for its id and for *)
(* one that does not exist, the job runs, and time passes.                 *)

\* An id no reservation has
FakeId == MaxRows + 1

\* expire_reservation.delay(i)
ExpireRequest(i) ==
    /\ queue' = Enqueue(queue, Job("expire_reservation", i, now))
    /\ queue' # queue
    /\ UNCHANGED <<now, advances, redis_client, redis, cache, rows, sent,
                   lock, pc, inst, last>>

NextExpire ==
    \/ \E p \in StoreProcs, k \in ApiSlots :
          rows = <<>> /\ ModelCreate(p, k, PENDING)
    \/ \E i \in {1, FakeId} : ExpireRequest(i)
    \/ \E j \in BagToSet(queue) : ExpireJob(j)
    \/ \E d \in StoreSteps : Advance(d)

SpecExpire == InitStore /\ [][NextExpire]_vars

-----------------------------------------------------------------------------
(* The expiration job and the database: one worker creates a reservation   *)
(* for today through the model, a caller submits expire_reservation for an *)
(* id that does not exist, the job runs with the database answering or     *)
(* raising OperationalError, and time passes by the pending timeout and    *)
(* from one retry to the next.                                              *)

\* Time passes until the next retry is due
Wait ==
    /\ \E j \in BagToSet(queue) :
          /\ now < j.eta /\ j.retries > 0
          /\ \A m \in BagToSet(queue) : now < m.eta => j.eta <= m.eta
          /\ now' = j.eta
    /\ UNCHANGED <<advances, redis_client, redis, cache, rows, queue, sent,
                   lock, pc, inst, last>>

NextRetry ==
    \/ \E p \in StoreProcs : rows = <<>> /\ ModelCreate(p, Slot1, PENDING)
    \/ queue = EmptyBag /\ ExpireRequest(FakeId)
    \/ \E j \in BagToSet(queue), db_error \in BOOLEAN : ExpireJobDb(j, db_error)
    \/ Wait
    \/ \E d \in StoreSteps : Advance(d)

SpecRetry == InitStore /\ [][NextRetry]_vars

-----------------------------------------------------------------------------
(* A confirm next to the expiration job: properties of SpecStore *)

\* C32: a confirm (status = CONFIRMED; save(), directly or through the
\* serializer) of a reservation that was read as PENDING and that the
\* expiration job has expired since leaves the stored status EXPIRED.
C32_ExpiredNotOverwritten ==
    [][\A p \in StoreProcs :
          /\ pc[p] = "loaded" /\ inst[p].status = PENDING
          /\ rows[inst[p].rid].status = EXPIRED
          /\ ModelSave(p, CONFIRMED) \/ SerializerUpdate(p, CONFIRMED)
          => rows'[inst[p].rid].status = EXPIRED]_vars

-----------------------------------------------------------------------------
(* The extend step of a creation: a property of SpecRace *)

\* C33: when the extend_lock(30) that follows the insert succeeds, the key
\* of the lock expires no earlier than it did before the call.
C33_ExtendNeverShortens ==
    [][\A p \in Procs :
          CreateInsert(p) /\ pc'[p] = "commit" /\ ExtendResult(lock[p])
          => redis'[lock[p].key].exp >= redis[lock[p].key].exp]_vars

-----------------------------------------------------------------------------
(* Owner tokens: a property of SpecLock *)

\* C34: two lock instances that exist at the same time never have the same
\* owner token.
C34_TokensUnique ==
    \A p, q \in Procs :
        p # q /\ pc[p] # "idle" /\ pc[q] # "idle"
        => lock[p].value # lock[q].value

-----------------------------------------------------------------------------
(* No lazy expiration: properties of Spec *)

\* Row i is a PENDING reservation of slot k whose expires_at has passed and
\* that nothing has transitioned yet.
Overdue(i, k) ==
    /\ i \in 1..Len(rows)
    /\ rows[i].slot = k
    /\ rows[i].status = PENDING /\ IsExpired(rows[i], now)

\* C35 as stated: every creation attempt that ends while its slot has a
\* committed overdue PENDING reservation is answered Conflict.
C35_OverdueAlwaysConflict ==
    [][\A p \in Procs :
          /\ Answers(p)
          /\ \E i \in Visible(rows) :
                i # inst[p].rid /\ Overdue(i, ToPython(inst[p].slot))
          => last'.status = "409"]_vars

\* C35: while a slot has an overdue PENDING reservation no creation attempt
\* for the slot is answered 201, and an attempt that runs its conflicts
\* check while that reservation is committed is answered 409 Conflict.
C35_OverdueStillBlocks ==
    [][\A p \in Procs :
          /\ (/\ Answers(p)
              /\ \E i \in 1..Len(rows) :
                    i # inst[p].rid /\ Overdue(i, ToPython(inst[p].slot)))
                => last'.status # "201"
          /\ (/\ CreateCheck(p)
              /\ \E i \in Visible(rows) : Overdue(i, ToPython(inst[p].slot)))
                => /\ last'.status = "409"
                   /\ rows' = rows]_vars

\* C35 witness: a request was answered Conflict while the reservation that
\* holds its slot is PENDING, committed and past its expiry.
C35_Witness ==
    \E p \in Procs :
        /\ last = ApiResp(p, "conflicts")
        /\ \E k \in ApiSlots, i \in Visible(rows) :
              Overdue(i, k) /\ now > rows[i].expires_at

-----------------------------------------------------------------------------
(* Without the key-value store: the race of SpecRace when no server was    *)
(* found at load time, or the server has gone since.                        *)

InitOutage == redis_client \in {"None", "down"} /\ InitRest

SpecOutage == InitOutage /\ [][NextRace]_vars

\* Worker p is inside the lock's with block of a creation.
InsideLock(p) == pc[p] \in {"check", "clean", "insert", "commit"}

\* C36 as stated: whenever the store is unavailable at acquire time,
\* acquire returns true and the creation goes on to its check.
C36_UnavailableAcquireTrue ==
    [][\A p \in Procs :
          CreateAcquire(p) /\ redis_client # "client" => pc'[p] = "check"]_vars

\* C36: with no client (redis_client is None) acquire returns true at its
\* first pass without writing a key or setting lock_acquired, and the
\* release at the end of the request returns true and deletes nothing; with
\* a client whose server has gone acquire returns false and the request is
\* answered 429.  Either way each slot keeps at most one active reservation.
C36_NoClientFailsOpen ==
    /\ [][\A p \in Procs :
             /\ CreateAcquire(p) /\ redis_client = "None"
                   => /\ AcquireOutcome(lock[p]) = "true" /\ pc'[p] = "check"
                      /\ lock[p].attempt = 0
                      /\ redis' = redis /\ ~lock'[p].acquired
             /\ Answers(p) /\ redis_client = "None"
                   => ReleaseResult(lock[p]) /\ redis' = redis
             /\ CreateAcquire(p) /\ redis_client = "down"
                   => /\ last' = ApiResp(p, "LockAcquisitionError")
                      /\ last'.status = "429"
                      /\ redis' = redis]_vars
    /\ [](C1_OneActivePerSlot)

\* C36 witness: with no client both workers are inside the lock for the same
\* slot at once, one of them with its row written.
C36_Witness ==
    /\ redis_client = "None"
    /\ InsideLock(1) /\ InsideLock(2)
    /\ inst[1].slot = inst[2].slot
    /\ \E p \in Procs : pc[p] = "commit"
    /\ \A k \in Keys : redis[k] = NoEntry

-----------------------------------------------------------------------------
(* acquire's answer against the key's presence at each pass                 *)

\* C37: with a working store, a pass of acquire that finds the key absent
\* (never set, released or expired) returns true; a pass returns false only
\* as the last of max_retries passes, and every pass that does not return
\* true found the key present.
C37_FalseOnlyIfKeyPresentEachPass ==
    [][\A p \in Procs :
          LockAcquire(p) /\ redis_client = "client"
             => LET l == lock[p]
                    out == AcquireOutcome(l)
                IN  /\ pc[p] = "ready" => l.attempt = 0
                    /\ l.attempt < l.retries
                    /\ ~Live(redis, l.key, now)
                          => /\ out = "true"
                             /\ last' = Resp(p, "acquire", "true")
                             /\ Live(redis', l.key, now)
                    /\ out = "retry"
                          => /\ Live(redis, l.key, now)
                             /\ lock'[p].attempt = l.attempt + 1
                    /\ out = "false"
                          => /\ Live(redis, l.key, now)
                             /\ l.attempt + 1 = l.retries
                             /\ last' = Resp(p, "acquire", "false")]_vars

\* C37 witness: a caller that found the key taken at every pass but the last
\* is about to make its last pass, and the key has gone in the meantime.
C37_Witness ==
    \E p \in Procs :
        /\ redis_client = "client"
        /\ pc[p] = "acquiring"
        /\ lock[p].attempt + 1 = lock[p].retries
        /\ ~Live(redis, lock[p].key, now)

-----------------------------------------------------------------------------
(* The sweep and its candidates                                             *)

\* Reservation i is PENDING with expires_at passed, and its save as EXPIRED
\* passes validation.
SweepDue(i) ==
    /\ i \in SweepCandidates(rows, now)
    /\ FullClean(rows, [InstOf(rows, i) EXCEPT !.status = EXPIRED], now)

\* C38: a run of the sweep re-reads each of its candidates and changes a
\* reservation only from PENDING with expires_at passed to EXPIRED; every
\* candidate that is still PENDING and overdue at the re-read is EXPIRED
\* after the run, so that with the expiration job it is transitioned once.
C38_SweepExpiresCandidates ==
    [][\A in_transaction \in BOOLEAN :
          Sweep(in_transaction)
             => \A i \in Visible(rows) :
                      /\ SweepDue(i) => last'.result = "completed"
                      /\ rows'[i] # rows[i]
                            => /\ i \in SweepCandidates(rows, now)
                               /\ rows'[i] = [rows[i] EXCEPT !.status = EXPIRED]
                      /\ SweepDue(i) => rows'[i].status = EXPIRED]_vars

-----------------------------------------------------------------------------
(* The availability cache after a creation                                  *)

\* C39: when a creation through the API commits, the cache holds no live
\* entry that says its slot is available.
C39_NoCachedAvailableAfterCommit ==
    [][\A p \in ApiProcs :
          CreateCommit(p) /\ last'.status = "201"
             => ~ (/\ CacheLive(cache', ToPython(inst[p].slot), now)
                   /\ cache'[ToPython(inst[p].slot)].val)]_vars

====
